---- MODULE Spec2Model ----
(***************************************************************************)
(* State-machine model of                                                  *)
(*   imodels/importance/r2f_exp_cleaned.py      (GMDI, GMDIEnsemble)       *)
(*   imodels/algebraic/marginal_shrinkage_linear_model.py                  *)
(* External numeric code (transformers, partial-prediction models, scoring *)
(* functions, sklearn estimators) is represented by its outcome, chosen    *)
(* nondeterministically by the action that calls it.                       *)
(***************************************************************************)
EXTENDS Integers, Sequences, FiniteSets, TLC

VARIABLES kind, ctor, gmdi, ens, call, mslm, ppm, calc, script, inp

vars == <<kind, ctor, gmdi, ens, call, mslm, ppm, calc, script, inp>>

(* ------------------------------ bounds --------------------------------- *)
NMembers == 2        \* number of transformers handed to GMDIEnsemble
NFeat == 1           \* X.shape[1], also the number of blocks
NData == 2           \* distinct data sets that may be passed to get_scores
MaxCols == 2         \* most columns of a two-dimensional target

(* --------------------------- value encodings --------------------------- *)
None == [tag |-> "None"]
Some(v) == [tag |-> "Some", v |-> v]

\* floating point scores: not-a-number or a rational n/d in lowest terms
NaN == [k |-> "nan", n |-> 0, d |-> 1]
Num(n) == [k |-> "num", n |-> n, d |-> 1]
IsNaN(s) == s.k = "nan"

RECURSIVE GCD(_, _)
GCD(a, b) == IF b = 0 THEN a ELSE GCD(b, a % b)
Abs(a) == IF a < 0 THEN -a ELSE a

\* float division tot / cnt of an integer total by a count; 0/0 is nan
Divide(tot, cnt) ==
    IF cnt = 0 THEN NaN
    ELSE LET g == GCD(Abs(tot), cnt)
             h == IF g = 0 THEN 1 ELSE g
         IN [k |-> "num", n |-> tot \div h, d |-> cnt \div h]

ScoreNums == {2, 4}
ScoreVals == {NaN} \cup {Num(n) : n \in ScoreNums}
ScoreVecs == [1..NFeat -> ScoreVals]

Modes == {"keep_k", "keep_rest"}

\* arguments of get_scores: X is None or an array with n rows,
\* y is None or a target with n rows; cols = 0 stands for a 1-d target
XArrays == {[tag |-> "X", id |-> i, n |-> i + 1] : i \in 1..NData}
YArrays1 == {[tag |-> "y", id |-> i, n |-> i + 1, cols |-> 0] : i \in 1..NData}
YArrays2 == {[tag |-> "y", id |-> i, n |-> i + 1, cols |-> c] : i \in 1..NData, c \in 1..MaxCols}
YArrays == YArrays1 \cup YArrays2
XArgs == {None} \cup XArrays
YArgs == {None} \cup YArrays
YNdim(y) == IF y.cols = 0 THEN 1 ELSE 2

(* ---------------- outcomes of the external calls of one fit ------------ *)
\* raise_at: the external call that raises, if any
\*    "transform" transformer.transform, "fit" ppm.fit, "score" scoring_fn
\* empty:   the transformed training representation has zero columns
\* scores:  the values scoring produces; a scoring_fn that raises does so at
\*          its first call, when _scores holds the zeros of np.zeros
NoOutcome == [raise_at |-> "none", empty |-> FALSE,
              scores |-> [k \in 1..NFeat |-> Num(0)]]
Outcomes(SV) ==
    {[NoOutcome EXCEPT !.raise_at = "transform"],
     [NoOutcome EXCEPT !.raise_at = "fit"],
     [NoOutcome EXCEPT !.raise_at = "score"],
     [NoOutcome EXCEPT !.empty = TRUE]}
    \cup {[NoOutcome EXCEPT !.scores = s] : s \in SV}

(* ------------------------------- GMDI ---------------------------------- *)
\* GMDI.__init__; the fields after drop_features trace the latest run of
\* _fit_importance_scores
GMDI_init(transformer, partial_prediction_model, scoring_fn, mode, oob, training, center, include_raw, drop_features) ==
    [transformer |-> transformer,
     mode |-> mode,
     n_features |-> None,
     _scores |-> None,
     is_fitted |-> FALSE,
     oob |-> oob,
     training |-> training,
     center |-> center,
     include_raw |-> include_raw,
     drop_features |-> drop_features,
     scores_src |-> None,        \* the (X, y) that _scores was computed from
     transform_center |-> None,  \* center flag handed to transformer.transform
     rescaled |-> FALSE,         \* the raw-feature rescaling branch ran
     train_rows |-> "none",      \* rows the partial-prediction model is fitted on
     test_rows |-> "none"]       \* rows the predictions are scored on

\* what GMDI._fit_one_target returns
FitOneTarget(multitarget) == <<"full_preds", "partial_preds", "partial_params">>

\* the loop "for j in range(y.ndim)" of _fit_importance_scores, where each
\* result of _fit_one_target is unpacked into two names; fits counts the
\* deep-copied models on which ppm.fit was called
RECURSIVE MultiTargetLoop(_, _, _, _)
MultiTargetLoop(j, y, o, fits) ==
    IF j >= YNdim(y) THEN [exc |-> "NameError", fits |-> fits]
    ELSE IF j >= y.cols THEN [exc |-> "IndexError", fits |-> fits]
    ELSE IF o.raise_at = "fit" THEN [exc |-> "External", fits |-> fits + 1]
    ELSE IF Len(FitOneTarget(TRUE)) # 2
         THEN [exc |-> "ValueError:unpack", fits |-> fits + 1]
         ELSE MultiTargetLoop(j + 1, y, o, fits + 1)

\* variant: the zero vector is stored without the not-a-number fill
EmptyScores_zeros(p) == [k \in 1..p |-> Num(0)]

\* the score vector stored when the transformed representation is empty
EmptyScores(p) == [k \in 1..p |-> NaN]

\* GMDI._fit_importance_scores; fits is the number of ppm.fit calls made
GMDI_fit_importance_scores(self, X, y, o) ==
    IF o.raise_at = "transform" THEN [self |-> self, exc |-> "External", fits |-> 0]
    ELSE
    LET s1 == [self EXCEPT !.transform_center = Some(self.center),
                           !.n_features = Some(NFeat),
                           !.rescaled = (self.include_raw /\ self.drop_features = FALSE)]
        s2 == IF s1.oob
              THEN IF s1.training
                   THEN [s1 EXCEPT !.train_rows = "inbag", !.test_rows = "inbag"]
                   ELSE [s1 EXCEPT !.train_rows = "inbag", !.test_rows = "oob"]
              ELSE [s1 EXCEPT !.train_rows = "all", !.test_rows = "all"]
        src == Some(<<X.id, y.id>>)
    IN
    IF o.empty
    THEN [self |-> [s2 EXCEPT !._scores = Some(EmptyScores(NFeat)),
                              !.scores_src = src,
                              !.is_fitted = TRUE],
          exc |-> "none", fits |-> 0]
    ELSE IF YNdim(y) = 1
    THEN IF o.raise_at = "fit"
         THEN [self |-> s2, exc |-> "External", fits |-> 1]
         ELSE IF Len(FitOneTarget(FALSE)) # 3
         THEN [self |-> s2, exc |-> "ValueError:unpack", fits |-> 1]
         ELSE IF o.raise_at = "score"
         THEN [self |-> [s2 EXCEPT !._scores = Some(o.scores), !.scores_src = src],
               exc |-> "External", fits |-> 1]
         ELSE [self |-> [s2 EXCEPT !._scores = Some(o.scores), !.scores_src = src,
                                   !.is_fitted = TRUE],
               exc |-> "none", fits |-> 1]
    ELSE LET r == MultiTargetLoop(0, y, o, 0)
         IN [self |-> s2, exc |-> r.exc, fits |-> r.fits]

\* variant: get_scores without the is_fitted test
GMDI_get_scores_refit(self, X, y, o) ==
    IF X = None \/ y = None
    THEN [self |-> self, exc |-> "ValueError:not_fitted", ret |-> None, ran |-> FALSE,
          fits |-> 0]
    ELSE LET r == GMDI_fit_importance_scores(self, X, y, o)
         IN [self |-> r.self, exc |-> r.exc,
             ret |-> IF r.exc = "none" THEN r.self._scores ELSE None,
             ran |-> TRUE, fits |-> r.fits]

\* variant: get_scores that returns the stored scores when data is missing
GMDI_get_scores_noraise(self, X, y, o) ==
    IF self.is_fitted \/ X = None \/ y = None
    THEN [self |-> self, exc |-> "none", ret |-> self._scores, ran |-> FALSE, fits |-> 0]
    ELSE LET r == GMDI_fit_importance_scores(self, X, y, o)
         IN [self |-> r.self, exc |-> r.exc,
             ret |-> IF r.exc = "none" THEN r.self._scores ELSE None,
             ran |-> TRUE, fits |-> r.fits]

\* GMDI.get_scores; ran tells whether _fit_importance_scores was entered
GMDI_get_scores(self, X, y, o) ==
    IF self.is_fitted
    THEN [self |-> self, exc |-> "none", ret |-> self._scores, ran |-> FALSE, fits |-> 0]
    ELSE IF X = None \/ y = None
    THEN [self |-> self, exc |-> "ValueError:not_fitted", ret |-> None, ran |-> FALSE,
          fits |-> 0]
    ELSE LET r == GMDI_fit_importance_scores(self, X, y, o)
         IN [self |-> r.self, exc |-> r.exc,
             ret |-> IF r.exc = "none" THEN r.self._scores ELSE None,
             ran |-> TRUE, fits |-> r.fits]

(* ---------------------------- GMDIEnsemble ----------------------------- *)
\* GMDIEnsemble.__init__: the members are built with positional arguments,
\* GMDI(transformer, ppm, scoring_fn, mode, oob, center, include_raw, drop_features),
\* so GMDI's ninth parameter keeps its default True
GMDIEnsemble_init(transformers, partial_prediction_model, scoring_fn, mode, oob, center, include_raw, drop_features) ==
    [n_transformers |-> Len(transformers),
     gmdi_objects |-> [i \in 1..Len(transformers) |->
                          GMDI_init(transformers[i], partial_prediction_model, scoring_fn,
                                    mode, oob, center, include_raw, drop_features, TRUE)],
     oob |-> oob,
     mode |-> mode,
     n_features |-> None,
     _scores |-> None,
     is_fitted |-> FALSE,
     include_raw |-> include_raw,
     drop_features |-> drop_features]

\* np.nanmean over one column: nans are replaced by 0 and left out of the count
RECURSIVE SumNums(_, _)
SumNums(col, i) ==
    IF i > Len(col) THEN 0
    ELSE (IF IsNaN(col[i]) THEN 0 ELSE col[i].n) + SumNums(col, i + 1)

\* variant: np.mean, which lets a nan entry through
NanMean_mean(col) ==
    IF \E i \in 1..Len(col) : IsNaN(col[i]) THEN NaN
    ELSE Divide(SumNums(col, 1), Len(col))

NanMean(col) ==
    LET cnt == Cardinality({i \in 1..Len(col) : ~IsNaN(col[i])})
    IN Divide(SumNums(col, 1), cnt)

\* the loop over self.gmdi_objects of GMDIEnsemble._fit_importance_scores:
\* res[i] is what member i's get_scores does when the loop reaches it, and the
\* loop reaches the members up to the first one that raises
MemberResults(objs, X, y, outs) ==
    [i \in 1..Len(objs) |-> GMDI_get_scores(objs[i], X, y, outs[i])]

FirstRaise(res) ==
    IF \A i \in 1..Len(res) : res[i].exc = "none" THEN Len(res) + 1
    ELSE CHOOSE i \in 1..Len(res) :
            /\ res[i].exc # "none"
            /\ \A j \in 1..(i - 1) : res[j].exc = "none"

MemberLoop(objs, res, stop) ==
    [objs |-> [i \in 1..Len(objs) |-> IF i <= stop THEN res[i].self ELSE objs[i]],
     exc |-> IF stop <= Len(objs) THEN res[stop].exc ELSE "none",
     scores |-> IF stop <= Len(objs) THEN <<>> ELSE [i \in 1..Len(objs) |-> res[i].ret.v],
     ran |-> {i \in 1..Len(objs) : i <= stop /\ res[i].ran},
     fits |-> [i \in 1..Len(objs) |-> IF i <= stop THEN res[i].fits ELSE 0]]

MemberLoopFrom(objs, res) == MemberLoop(objs, res, FirstRaise(res))

\* self after the loop, np.nanmean(scores, axis=0) and the two assignments
EnsembleFitted(self, r) ==
    IF r.exc # "none"
    THEN [self |-> [self EXCEPT !.gmdi_objects = r.objs], exc |-> r.exc, ran |-> r.ran,
          fits |-> r.fits]
    ELSE [self |-> [self EXCEPT
              !.gmdi_objects = r.objs,
              !._scores = Some([k \in 1..NFeat |->
                             NanMean([m \in 1..Len(r.scores) |-> r.scores[m][k]])]),
              !.is_fitted = TRUE,
              !.n_features = r.objs[1].n_features],
          exc |-> "none", ran |-> r.ran, fits |-> r.fits]

NoFits == [i \in 1..NMembers |-> 0]

GMDIEnsemble_fit_importance_scores(self, X, y, outs) ==
    IF X.n # y.n THEN [self |-> self, exc |-> "AssertionError", ran |-> {}, fits |-> NoFits]
    ELSE EnsembleFitted(self,
            MemberLoopFrom(self.gmdi_objects, MemberResults(self.gmdi_objects, X, y, outs)))

\* the value get_scores returns after a fit
Returned(r) ==
    [self |-> r.self, exc |-> r.exc,
     ret |-> IF r.exc = "none" THEN r.self._scores ELSE None,
     ran |-> r.ran, fits |-> r.fits]

GMDIEnsemble_get_scores(self, X, y, outs) ==
    IF self.is_fitted
    THEN [self |-> self, exc |-> "none", ret |-> self._scores, ran |-> {}, fits |-> NoFits]
    ELSE IF X = None \/ y = None
    THEN [self |-> self, exc |-> "ValueError:not_fitted", ret |-> None, ran |-> {},
          fits |-> NoFits]
    ELSE Returned(GMDIEnsemble_fit_importance_scores(self, X, y, outs))

\* the outcome sequences that matter to one ensemble call: a member that is
\* already fitted, or that follows a member that raises, makes no external call
RECURSIVE OutcomeSeqs(_, _, _)
OutcomeSeqs(objs, i, OS) ==
    IF i > Len(objs) THEN {<<>>}
    ELSE IF objs[i].is_fitted
    THEN {<<NoOutcome>> \o t : t \in OutcomeSeqs(objs, i + 1, OS)}
    ELSE UNION {IF o.raise_at # "none"
                THEN {<<o>> \o [j \in 1..(Len(objs) - i) |-> NoOutcome]}
                ELSE {<<o>> \o t : t \in OutcomeSeqs(objs, i + 1, OS)}
                : o \in OS}

\* GMDI_pipeline from the transformers on: one-hot encoding of a
\* classification target with more than two classes, the ensemble, get_scores
GMDI_pipeline(X, y, n_unique, regression, mode, include_raw, drop_features, oob, center, outs) ==
    LET y1 == IF ~regression /\ n_unique > 2 THEN [y EXCEPT !.cols = n_unique] ELSE y
        e == GMDIEnsemble_init([i \in 1..NMembers |-> i], "ppm", "scoring_fn", mode,
                               oob, center, include_raw, drop_features)
    IN GMDIEnsemble_get_scores(e, X, y1, outs)

(* ------------------------------ the machine ---------------------------- *)
\* call: the latest call, its arguments, the exception it raised, the value
\* it returned, the members whose _fit_importance_scores ran, the number of
\* ppm.fit calls, and for every member what its external calls did
Ext(o) == [raise_at |-> o.raise_at, empty |-> o.empty]
NoCall == [op |-> "none", X |-> None, y |-> None, exc |-> "none", ret |-> None,
           ran |-> {}, ppm_fits |-> <<>>, ext |-> <<>>]

\* a stand-alone GMDI built by GMDI(transformer, ppm, scoring_fn, ...) from
\* arguments in the given sets
InitGMDIFrom(MS, BT, B) ==
    /\ kind = "GMDI"
    /\ \E mode \in MS, oob \in BT, training \in BT, center \in B,
          include_raw \in B, drop_features \in B :
          /\ ctor = [mode |-> mode, oob |-> oob, training |-> training, center |-> center,
                     include_raw |-> include_raw, drop_features |-> drop_features]
          /\ gmdi = GMDI_init(1, "ppm", "scoring_fn", mode, oob, training, center,
                              include_raw, drop_features)
    /\ ens = None
    /\ call = NoCall
    /\ mslm = None
    /\ ppm = None /\ calc = None /\ script = None /\ inp = None

\* an ensemble built by GMDIEnsemble(transformers, ppm, scoring_fn, ...) from
\* arguments in the given sets
InitEnsembleFrom(MS, B) ==
    /\ kind = "GMDIEnsemble"
    /\ \E mode \in MS, oob \in B, center \in B, include_raw \in B, drop_features \in B :
          /\ ctor = [mode |-> mode, oob |-> oob, training |-> FALSE, center |-> center,
                     include_raw |-> include_raw, drop_features |-> drop_features]
          /\ ens = GMDIEnsemble_init([i \in 1..NMembers |-> i], "ppm", "scoring_fn", mode,
                                     oob, center, include_raw, drop_features)
    /\ gmdi = None
    /\ call = NoCall
    /\ mslm = None
    /\ ppm = None /\ calc = None /\ script = None /\ inp = None

\* the arguments of a coming GMDI_pipeline call
InitPipeline ==
    /\ kind = "GMDI_pipeline"
    /\ \E mode \in Modes, oob \in BOOLEAN, center \in BOOLEAN,
          include_raw \in BOOLEAN, drop_features \in BOOLEAN :
          ctor = [mode |-> mode, oob |-> oob, training |-> FALSE, center |-> center,
                  include_raw |-> include_raw, drop_features |-> drop_features]
    /\ ens = None
    /\ gmdi = None
    /\ call = NoCall
    /\ mslm = None
    /\ ppm = None /\ calc = None /\ script = None /\ inp = None

\* a caller invokes get_scores on the stand-alone GMDI
GetScoresFrom(XS, YS, OS) ==
    /\ kind = "GMDI"
    /\ \E X \in XS, y \in YS :
       \E o \in IF gmdi.is_fitted \/ X = None \/ y = None
                THEN {NoOutcome} ELSE OS :
          LET r == GMDI_get_scores(gmdi, X, y, o)
          IN /\ gmdi' = r.self
             /\ call' = [op |-> "GMDI.get_scores", X |-> X, y |-> y, exc |-> r.exc,
                         ret |-> r.ret, ran |-> IF r.ran THEN {1} ELSE {},
                         ppm_fits |-> <<r.fits>>, ext |-> <<Ext(o)>>]
    /\ UNCHANGED <<kind, ctor, ens, mslm, ppm, calc, script, inp>>

\* a caller invokes get_scores on the ensemble
EnsembleGetScoresFrom(XS, YS, OS) ==
    /\ kind = "GMDIEnsemble"
    /\ \E X \in XS, y \in YS :
       \E outs \in IF ens.is_fitted \/ X = None \/ y = None
                   THEN {[i \in 1..NMembers |-> NoOutcome]}
                   ELSE OutcomeSeqs(ens.gmdi_objects, 1, OS) :
          LET r == GMDIEnsemble_get_scores(ens, X, y, outs)
          IN /\ ens' = r.self
             /\ call' = [op |-> "GMDIEnsemble.get_scores", X |-> X, y |-> y,
                         exc |-> r.exc, ret |-> r.ret, ran |-> r.ran, ppm_fits |-> r.fits,
                         ext |-> [i \in 1..NMembers |-> Ext(outs[i])]]
    /\ UNCHANGED <<kind, ctor, gmdi, mslm, ppm, calc, script, inp>>

\* a caller runs GMDI_pipeline; ens keeps the ensemble the call built
PipelineFrom(XS, YS, OS) ==
    /\ kind = "GMDI_pipeline"
    /\ \E X \in XS, y \in YS, regression \in BOOLEAN, n_unique \in {2, 3} :
       \E outs \in OutcomeSeqs([i \in 1..NMembers |-> [is_fitted |-> FALSE]], 1, OS) :
          LET r == GMDI_pipeline(X, y, n_unique, regression, ctor.mode, ctor.include_raw,
                                 ctor.drop_features, ctor.oob, ctor.center, outs)
          IN /\ ens' = r.self
             /\ call' = [op |-> "GMDI_pipeline", X |-> X, y |-> y,
                         exc |-> r.exc, ret |-> r.ret, ran |-> r.ran, ppm_fits |-> r.fits,
                         ext |-> [i \in 1..NMembers |-> Ext(outs[i])]]
    /\ UNCHANGED <<kind, ctor, gmdi, mslm, ppm, calc, script, inp>>

\* one score vector
OneScore == {[k \in 1..NFeat |-> Num(2)]}

\* SpecG: a stand-alone GMDI or an ensemble, built with the constructor's
\* default arguments; the GMDI is called with any data and any outcome, the
\* ensemble with 1-d targets, and its members may fail at any external call
GetScores == GetScoresFrom(XArgs, YArgs, Outcomes(ScoreVecs))
EnsembleGetScores == EnsembleGetScoresFrom(XArgs, {None} \cup YArrays1, Outcomes(OneScore))
InitG == InitGMDIFrom({"keep_k"}, {FALSE}, {TRUE}) \/ InitEnsembleFrom({"keep_k"}, {TRUE})
NextG == GetScores \/ EnsembleGetScores
SpecG == InitG /\ [][NextG]_vars

\* SpecM: an ensemble built with the default arguments whose members report
\* any score vectors, or an empty representation
Returning(OS) == {o \in OS : o.raise_at = "none"}
EnsembleScores == EnsembleGetScoresFrom(XArgs, {None} \cup YArrays1, Returning(Outcomes(ScoreVecs)))
InitM == InitEnsembleFrom({"keep_k"}, {TRUE})
NextM == EnsembleScores
SpecM == InitM /\ [][NextM]_vars

\* SpecC: a GMDI, an ensemble or a pipeline call with any arguments, run on
\* one data set
X1 == CHOOSE X \in XArrays : X.id = 1
Y1 == CHOOSE y \in YArrays1 : y.id = 1
GetScoresC == GetScoresFrom({None, X1}, {None, Y1}, Outcomes(OneScore))
EnsembleGetScoresC == EnsembleGetScoresFrom({None, X1}, {None, Y1}, Outcomes(OneScore))
PipelineC == PipelineFrom({X1}, {Y1}, Outcomes(OneScore))
InitC == InitGMDIFrom(Modes, BOOLEAN, BOOLEAN) \/ InitEnsembleFrom(Modes, BOOLEAN) \/ InitPipeline
NextC == GetScoresC \/ EnsembleGetScoresC \/ PipelineC
SpecC == InitC /\ [][NextC]_vars

(* ======================= claims about GMDI ============================= *)
IsEns == kind = "GMDIEnsemble"
IsGMDI == kind = "GMDI"
Members == 1..NMembers
MemberScore(m, k) == ens.gmdi_objects[m]._scores.v[k]

\* C1: a GMDI (stand-alone or ensemble member) that is fitted stays fitted,
\* and every later get_scores call on it, whatever its arguments, returns the
\* stored score vector, leaves that vector as it is and runs neither the
\* transformer nor the partial-prediction model.
C1_FittedIsFinal ==
    [][ /\ (IsGMDI /\ gmdi.is_fitted) =>
              /\ gmdi'.is_fitted
              /\ gmdi'._scores = gmdi._scores
              /\ call'.exc = "none"
              /\ call'.ret = gmdi._scores
              /\ call'.ran = {}
              /\ call'.ppm_fits = <<0>>
        /\ IsEns => \A m \in Members :
              ens.gmdi_objects[m].is_fitted =>
                 /\ ens'.gmdi_objects[m].is_fitted
                 /\ ens'.gmdi_objects[m]._scores = ens.gmdi_objects[m]._scores
                 /\ m \notin call'.ran
      ]_vars

\* C1 witness: a fitted GMDI was called again with data other than the data
\* it was fitted on and returned its stored scores
C1_Witness ==
    /\ IsGMDI /\ gmdi.is_fitted
    /\ call.ran = {} /\ call.X # None /\ call.y # None
    /\ gmdi.scores_src # Some(<<call.X.id, call.y.id>>)
    /\ call.ret = gmdi._scores

RECURSIVE SumOver(_, _)
SumOver(S, k) ==
    IF S = {} THEN 0
    ELSE LET m == CHOOSE x \in S : TRUE
         IN MemberScore(m, k).n + SumOver(S \ {m}, k)

C4_SameData ==
    (IsEns /\ call.op = "GMDIEnsemble.get_scores" /\ call.exc = "none" /\ call.ran # {}) =>
       \A m \in Members :
          ens.gmdi_objects[m].scores_src = Some(<<call.X.id, call.y.id>>)

\* C5: with oob=True given to GMDIEnsemble or GMDI_pipeline, whatever center,
\* include_raw and drop_features are, a member that reached the split fits on
\* its in-bag rows and scores on its out-of-bag rows.
C5_OobHeldOut ==
    (kind \in {"GMDIEnsemble", "GMDI_pipeline"} /\ ens # None /\ ctor.oob) =>
       \A m \in Members :
          ens.gmdi_objects[m].train_rows # "none" =>
             /\ ens.gmdi_objects[m].train_rows = "inbag"
             /\ ens.gmdi_objects[m].test_rows = "oob"

\* C6: for a 2-d target with c columns and a non-empty representation (no
\* external call raising), the fit calls ppm.fit on exactly c deep copies,
\* raises nothing and leaves the GMDI fitted.
C6_MultiTarget ==
    (/\ IsGMDI /\ call.ran = {1}
     /\ call.y.cols >= 1
     /\ call.ext[1].raise_at = "none" /\ ~call.ext[1].empty) =>
       /\ call.exc = "none"
       /\ call.ppm_fits = <<call.y.cols>>
       /\ gmdi.is_fitted

\* C7: when the transformed training representation has zero columns the
\* fit raises nothing, never calls ppm.fit, stores not-a-number for each of
\* the NFeat columns of X and marks the GMDI fitted.
C7_EmptyRepresentation ==
    /\ (IsGMDI /\ call.ran = {1} /\ call.ext[1].empty) =>
          /\ call.exc = "none"
          /\ call.ppm_fits = <<0>>
          /\ gmdi.is_fitted
          /\ gmdi._scores # None
          /\ Len(gmdi._scores.v) = NFeat
          /\ \A k \in 1..NFeat : IsNaN(gmdi._scores.v[k])
          /\ call.ret = gmdi._scores
    /\ IsEns => \A m \in call.ran :
          call.ext[m].empty =>
             /\ ens.gmdi_objects[m].is_fitted
             /\ call.ppm_fits[m] = 0
             /\ \A k \in 1..NFeat : IsNaN(MemberScore(m, k))

\* C7 witness: a GMDI was fitted on data whose representation is empty
C7_Witness ==
    /\ IsGMDI /\ call.ran = {1} /\ call.ext[1].empty
    /\ gmdi.is_fitted /\ call.exc = "none"

(* ================= MarginalShrinkageLinearModel ======================== *)
\* The model is fitted on data with NCols >= 2 feature columns.  Numbers are
\* integers counting units of 1/NCols, so that the division of the marginal
\* coefficients by the number of features is exact.
NCols == 2

\* the StandardScaler fitted on y: its mean_ and scale_
YScaler == [mean |-> 1, scale |-> 2]

\* an attribute that was never assigned
Unset == [tag |-> "unset"]

\* the keys of the dictionary in _get_est_from_name
EstNames == {Some("ridge"), Some("ols"), Some("NNLS"), Some("None"), None}

CoefVals == {-1, 0, 1}
Real(c) == c * NCols
Sign(c) == IF c > 0 THEN 1 ELSE IF c < 0 THEN -1 ELSE 0

MSLM_init(est_marginal_name, est_main_name, marginal_divide_by_d, marginal_sign_constraint, regressor) ==
    [est_marginal_name |-> est_marginal_name,
     est_main_name |-> est_main_name,
     marginal_divide_by_d |-> marginal_divide_by_d,
     marginal_sign_constraint |-> marginal_sign_constraint,
     regressor |-> regressor,        \* the class mixes in RegressorMixin
     scalar_X_ |-> Unset, scalar_y_ |-> Unset,
     coef_marginal_ |-> Unset, est_main_ |-> Unset]

\* an unfitted sklearn estimator; all are built with fit_intercept=False
Estimator(cls, positive) ==
    [tag |-> "estimator", cls |-> cls, positive |-> positive,
     fit_intercept |-> FALSE, coef_ |-> Unset]

MSLM_get_est_from_name(est_name) ==
    IF est_name = Some("ridge") THEN Estimator("RidgeCV", FALSE)
    ELSE IF est_name = Some("ols") THEN Estimator("LinearRegression", FALSE)
    ELSE IF est_name = Some("NNLS") THEN Estimator("ElasticNetCV", TRUE)
    ELSE None

\* the coefficients a fit of the estimator can return: any numbers, and no
\* negative ones when the estimator was built with positive=True
EstimatorCoefs(est) ==
    IF est = None THEN {0}
    ELSE IF est.positive THEN {c \in CoefVals : c >= 0}
    ELSE CoefVals

\* raw[i] is the coefficient the marginal estimator learns on column i alone
MSLM_fit_marginal(self, raw) ==
    LET est_marginal == MSLM_get_est_from_name(self.est_marginal_name)
        coef_marginal_ == IF est_marginal = None
                          THEN [i \in 1..NCols |-> 0]
                          ELSE [i \in 1..NCols |-> Real(raw[i])]
    IN IF self.marginal_divide_by_d
       THEN [i \in 1..NCols |-> coef_marginal_[i] \div NCols]
       ELSE coef_marginal_

\* line 85: the estimator name with which the sign constraint may be used
SignConstraintAllowed_any(est_main_name) == TRUE
SignConstraintAllowed(est_main_name) == est_main_name = Some("NNLS")

\* line 89: the coefficients fitted on the sign-flipped columns, flipped back
Unflip_missing(coef, coef_signs) == coef
Unflip(coef, coef_signs) == [i \in 1..NCols |-> coef[i] * coef_signs[i]]

\* line 94: the coefficients given to the placeholder estimator
AbsentCoef_twice(coef_marginal_) == [i \in 1..NCols |-> coef_marginal_[i] + coef_marginal_[i]]
AbsentCoef(coef_marginal_) == coef_marginal_

FitResult(self, exc, fit_X, fit_y) ==
    [self |-> self, exc |-> exc, fit_X |-> fit_X, fit_y |-> fit_y]

\* lines 84-102 of fit; s holds the scalers, coef_marginal_ and the fresh
\* est_main_, main is the coefficient vector est_main_.fit would learn
MSLM_fit_main(s, main) ==
    IF s.marginal_sign_constraint
    THEN IF ~SignConstraintAllowed(s.est_main_name)
         THEN FitResult(s, "AssertionError", "none", "none")
         ELSE IF s.est_main_ = None
         THEN FitResult(s, "AttributeError", "none", "none")
         ELSE FitResult([s EXCEPT !.est_main_.coef_ =
                            Some(Unflip(main, [i \in 1..NCols |-> Sign(s.coef_marginal_.v[i])]))],
                        "none", "X*coef_signs", "y")
    ELSE IF s.est_main_ = None
    THEN FitResult([s EXCEPT !.est_main_ =
                       [Estimator("RidgeCV", FALSE) EXCEPT
                           !.coef_ = Some(AbsentCoef(s.coef_marginal_.v))]],
                   "none", "X[:5]", "y[:5]")
    ELSE FitResult([s EXCEPT !.est_main_.coef_ =
                       Some([i \in 1..NCols |-> main[i] + s.coef_marginal_.v[i]])],
                   "none", "X", "residuals")

\* fit(X, y): o.check tells whether check_X_y accepts the data, o.marginal
\* and o.main are what the marginal and the main estimator learn
MSLM_fit(self, o) ==
    IF ~o.check
    THEN FitResult(self, "ValueError:check_X_y", "none", "none")
    ELSE MSLM_fit_main(
            [self EXCEPT !.scalar_X_ = Some("StandardScaler"),
                         !.scalar_y_ = IF self.regressor
                                       THEN Some(YScaler)
                                       ELSE @,
                         !.coef_marginal_ = Some(MSLM_fit_marginal(self, o.marginal)),
                         !.est_main_ = MSLM_get_est_from_name(self.est_main_name)],
            o.main)

\* X @ coef over the first n columns
RECURSIVE Dot(_, _, _)
Dot(X, coef, n) == IF n = 0 THEN 0 ELSE X[n] * coef[n] + Dot(X, coef, n - 1)

\* StandardScaler.inverse_transform
inverse_transform(scaler, pred) == pred * scaler.scale + Real(scaler.mean)

PredictResult(exc, ret) == [exc |-> exc, ret |-> ret]

\* predict(X): X_scaled is what scalar_X_.transform(X) returns
MSLM_predict(self, X_scaled) ==
    IF self.scalar_X_ = Unset THEN PredictResult("AttributeError:scalar_X_", None)
    ELSE IF self.est_main_ = None THEN PredictResult("AttributeError:predict", None)
    ELSE IF self.est_main_.coef_ = Unset THEN PredictResult("NotFittedError", None)
    ELSE IF self.scalar_y_ = Unset THEN PredictResult("AttributeError:scalar_y_", None)
    ELSE PredictResult("none",
            Some(inverse_transform(self.scalar_y_.v,
                                   Dot(X_scaled, self.est_main_.coef_.v, NCols))))

NoCallL == [op |-> "none", X |-> None, exc |-> "none", ret |-> None,
            fit_X |-> "none", fit_y |-> "none"]

\* a model built by MarginalShrinkageLinearModel(...) or by the Regressor
\* subclass, with any arguments
InitL ==
    /\ kind = "MSLM"
    /\ \E est_marginal_name \in EstNames, est_main_name \in EstNames,
          marginal_divide_by_d \in BOOLEAN, marginal_sign_constraint \in BOOLEAN,
          regressor \in BOOLEAN :
          mslm = MSLM_init(est_marginal_name, est_main_name, marginal_divide_by_d,
                           marginal_sign_constraint, regressor)
    /\ ctor = None /\ gmdi = None /\ ens = None
    /\ ppm = None /\ calc = None /\ script = None /\ inp = None
    /\ call = NoCallL

\* a caller fits the model; a model is fitted once, and a call that
\* check_X_y rejected can be repeated
Fit ==
    /\ kind = "MSLM"
    /\ mslm.coef_marginal_ = Unset
    /\ \E check \in BOOLEAN,
          marginal \in [1..NCols -> EstimatorCoefs(MSLM_get_est_from_name(mslm.est_marginal_name))],
          main \in [1..NCols -> EstimatorCoefs(MSLM_get_est_from_name(mslm.est_main_name))] :
          LET r == MSLM_fit(mslm, [check |-> check, marginal |-> marginal, main |-> main])
          IN /\ mslm' = r.self
             /\ call' = [op |-> "fit", X |-> None, exc |-> r.exc, ret |-> None,
                         fit_X |-> r.fit_X, fit_y |-> r.fit_y]
    /\ UNCHANGED <<kind, ctor, gmdi, ens, ppm, calc, script, inp>>

\* a caller asks the model for predictions on one row
Predict ==
    /\ kind = "MSLM"
    /\ \E X_scaled \in [1..NCols -> {-1, 1}] :
          LET r == MSLM_predict(mslm, X_scaled)
          IN call' = [op |-> "predict", X |-> Some(X_scaled), exc |-> r.exc,
                      ret |-> r.ret, fit_X |-> "none", fit_y |-> "none"]
    /\ UNCHANGED <<kind, ctor, gmdi, ens, mslm, ppm, calc, script, inp>>

NextL == Fit \/ Predict
SpecL == InitL /\ [][NextL]_vars

(* ============ claims about MarginalShrinkageLinearModel ================ *)
IsMSLM == kind = "MSLM"
Fitted == mslm.coef_marginal_ # Unset
NoMainName == {None, Some("None")}

\* C8: a model built with marginal_sign_constraint=True and an est_main_name
\* other than "NNLS" raises the AssertionError when it is fitted on data that
\* check_X_y accepts, without any call of est_main_.fit, and at no time holds
\* a main estimator that has coefficients.
C8_SignNeedsNNLS ==
    (IsMSLM /\ mslm.marginal_sign_constraint /\ mslm.est_main_name # Some("NNLS")) =>
       /\ (call.op = "fit" /\ call.exc # "ValueError:check_X_y") =>
             (call.exc = "AssertionError" /\ call.fit_X = "none" /\ call.fit_y = "none")
       /\ \/ mslm.est_main_ \in {Unset, None}
          \/ mslm.est_main_.coef_ = Unset

\* C8 witness: a sign-constrained model with the ridge main estimator was
\* fitted, learned its marginal coefficients and raised the AssertionError
C8_Witness ==
    /\ IsMSLM /\ mslm.marginal_sign_constraint /\ mslm.est_main_name = Some("ridge")
    /\ call.op = "fit" /\ call.exc = "AssertionError"
    /\ Fitted /\ mslm.est_main_ # Unset

\* C9: after a fit with marginal_sign_constraint=True and est_main_name="NNLS"
\* every final coefficient is zero or has the sign of the marginal
\* coefficient of its feature (so it is zero where the marginal one is zero).
C9_SameSign ==
    (IsMSLM /\ mslm.marginal_sign_constraint /\ mslm.est_main_name = Some("NNLS") /\ Fitted) =>
       /\ mslm.est_main_ # None /\ mslm.est_main_.coef_ # Unset
       /\ \A j \in 1..NCols :
             \/ mslm.est_main_.coef_.v[j] = 0
             \/ Sign(mslm.est_main_.coef_.v[j]) = Sign(mslm.coef_marginal_.v[j])

\* C9 witness: a feature with a negative marginal coefficient got a negative
\* final coefficient from the non-negative fit
C9_Witness ==
    /\ IsMSLM /\ mslm.marginal_sign_constraint /\ mslm.est_main_name = Some("NNLS")
    /\ Fitted /\ call.op = "fit" /\ call.fit_X = "X*coef_signs"
    /\ \E j \in 1..NCols :
          mslm.coef_marginal_.v[j] < 0 /\ mslm.est_main_.coef_.v[j] < 0

C19_MemberFlags ==
    (kind \in {"GMDIEnsemble", "GMDI_pipeline"} /\ ens # None) =>
       \A m \in Members :
          /\ ens.gmdi_objects[m].oob = ctor.oob
          /\ ens.gmdi_objects[m].center = ctor.center
          /\ ens.gmdi_objects[m].include_raw = ctor.include_raw
          /\ ens.gmdi_objects[m].drop_features = ctor.drop_features
          /\ ens.gmdi_objects[m].training = FALSE
          /\ ens.gmdi_objects[m].transform_center # None =>
                /\ ens.gmdi_objects[m].transform_center = Some(ctor.center)
                /\ ens.gmdi_objects[m].rescaled = (ctor.include_raw /\ ~ctor.drop_features)

\* C14: predict of a model whose fit succeeded returns the main estimator's
\* prediction X_scaled @ coef_, passed through the inverse y scaling for the
\* regressor and as it is for a model without y scaler; it does not raise.
C14_PredictWithoutYScaler ==
    (/\ IsMSLM /\ Fitted /\ call.op = "predict"
     /\ mslm.est_main_ # None /\ mslm.est_main_.coef_ # Unset) =>
       /\ call.exc = "none"
       /\ call.ret = Some(IF mslm.regressor
                          THEN inverse_transform(mslm.scalar_y_.v,
                                                 Dot(call.X.v, mslm.est_main_.coef_.v, NCols))
                          ELSE Dot(call.X.v, mslm.est_main_.coef_.v, NCols))

(* ========================= GlmAlooCalculator ============================ *)
NAlpha == 2

\* the candidate strengths, in grid order
alpha_grid == [i \in 1..NAlpha |-> i]
AlphaArgs == {None} \cup {Some(alpha_grid[i]) : i \in 1..NAlpha}

\* a data set (X, y); data sets of equal shape can be broadcast together
Shape(id) == id % 2
DataSets == {[id |-> i, shape |-> Shape(i)] : i \in 1..NData}
DataArgs == {None} \cup {Some(D) : D \in DataSets}

\* which regularisation parameter the estimator has (hasattr tests)
EstParams == {"alpha", "C", "none"}

GlmAlooCalculator_init(estimator, trim) ==
    [estimator |-> estimator,       \* [has, param, fitted_on]
     alpha_grid |-> alpha_grid,
     trim |-> trim,
     alpha_ |-> None,
     loo_fitted_parameters |-> None]

NewEstimator(has) == [has |-> has, param |-> None, fitted_on |-> None]

\* lines 513-518: the strength given to the estimator and used in J
SetParams(estimator, alpha) ==
    IF estimator.has = "none" THEN estimator ELSE [estimator EXCEPT !.param = alpha]
EffectiveAlpha(estimator, alpha) ==
    IF estimator.has = "none" THEN Some(0) ELSE alpha

ParamsResult(self, exc, ret, refit) ==
    [self |-> self, exc |-> exc, ret |-> ret, refit |-> refit]

\* variant: the cache is written whatever the cache argument is
StoreInCache_always(cache) == TRUE
\* line 542
StoreInCache(cache) == cache

\* get_aloo_fitted_parameters(X, y, alpha, cache); D is the pair (X, y),
\* fit_raises tells whether estimator.fit raises.  The matrix returned is
\* identified by the data and the strength it was fitted with.
GlmAlooCalculator_get_aloo_fitted_parameters(self, D, alpha, cache, fit_raises) ==
    IF self.loo_fitted_parameters # None
    THEN ParamsResult(self, "none", self.loo_fitted_parameters, FALSE)
    ELSE IF self.estimator.has = "C" /\ alpha = None
    THEN ParamsResult(self, "TypeError", None, FALSE)
    ELSE IF D = None \/ EffectiveAlpha(self.estimator, alpha) = None \/ fit_raises
    THEN ParamsResult([self EXCEPT !.estimator = SetParams(@, alpha)],
                      "External", None, TRUE)
    ELSE IF StoreInCache(cache)
    THEN ParamsResult(
            [self EXCEPT !.loo_fitted_parameters =
                            Some([data |-> D.v.id, shape |-> D.v.shape,
                                  alpha |-> EffectiveAlpha(self.estimator, alpha).v]),
                         !.estimator = [SetParams(@, alpha) EXCEPT !.fitted_on = Some(D.v.id)]],
            "none",
            Some([data |-> D.v.id, shape |-> D.v.shape,
                  alpha |-> EffectiveAlpha(self.estimator, alpha).v]),
            TRUE)
    ELSE ParamsResult(
            [self EXCEPT !.estimator = SetParams(@, alpha)],
            "none",
            Some([data |-> D.v.id, shape |-> D.v.shape,
                  alpha |-> EffectiveAlpha(self.estimator, alpha).v]),
            TRUE)

(* ------------------------------ trimming -------------------------------- *)
\* Probabilities and trim limits are integers counting hundredths.
Unit == 100

\* the test of the assert in _trim_values
TrimOk(trim) == 0 < trim /\ 2 * trim < Unit

\* variant: clips to [trim, 1] only
Clip_lower(v, lo, hi) == IF v < lo THEN lo ELSE v
\* np.clip on one entry
Clip(v, lo, hi) == IF v < lo THEN lo ELSE IF v > hi THEN hi ELSE v

TrimResult(exc, ret) == [exc |-> exc, ret |-> ret]

\* the body shared by the three _trim_values methods
TrimValues(trim, values) ==
    IF trim = None THEN TrimResult("none", Some(values))
    ELSE IF ~TrimOk(trim.v) THEN TrimResult("AssertionError", None)
    ELSE TrimResult("none",
            Some([i \in DOMAIN values |-> Clip(values[i], trim.v, Unit - trim.v)]))

GlmAlooCalculator_trim_values(self, values) == TrimValues(self.trim, values)

\* score_to_pred(score); linked is link_fn(score)
GlmAlooCalculator_score_to_pred(self, linked) == GlmAlooCalculator_trim_values(self, linked)

(* --------------------------- get_aloocv_alpha --------------------------- *)
\* np.argmin: the first index holding the least value
ArgMin(cv) ==
    CHOOSE i \in DOMAIN cv :
       /\ \A j \in DOMAIN cv : cv[i] <= cv[j]
       /\ \A j \in DOMAIN cv : j < i => cv[j] > cv[i]

\* the matrix get_aloo_fitted_parameters hands back for candidate i
CandidateParams(self, D, i) ==
    IF self.loo_fitted_parameters # None THEN self.loo_fitted_parameters
    ELSE Some([data |-> D.id, shape |-> D.shape,
               alpha |-> EffectiveAlpha(self.estimator, Some(alpha_grid[i])).v])

AlphaResult(self, exc, ret, cv_scores, srcs, refits) ==
    [self |-> self, exc |-> exc, ret |-> ret, cv_scores |-> cv_scores,
     srcs |-> srcs, refits |-> refits]

\* get_aloocv_alpha(X, y); D is the pair (X, y), fit_raises tells whether the
\* first estimator.fit raises, score[a] is what hyperparameter_scorer returns
\* for the predictions made on X with a parameter matrix fitted at strength a
GlmAlooCalculator_get_aloocv_alpha(self, D, fit_raises, score) ==
    LET cached == self.loo_fitted_parameters # None
        first == [self EXCEPT !.estimator =
                     IF cached THEN @ ELSE SetParams(@, Some(alpha_grid[1]))]
        last == [self EXCEPT !.estimator =
                     IF cached THEN @ ELSE SetParams(@, Some(alpha_grid[NAlpha]))]
        srcs == [i \in 1..NAlpha |-> CandidateParams(self, D, i)]
        cv_scores == [i \in 1..NAlpha |-> score[srcs[i].v.alpha]]
    IN IF ~cached /\ fit_raises
       THEN AlphaResult(first, "External", None, <<>>, <<>>, 1)
       ELSE IF srcs[1].v.shape # D.shape
       THEN AlphaResult(first, "ValueError:broadcast", None, <<>>, <<>>, 0)
       ELSE IF GlmAlooCalculator_score_to_pred(self, <<0>>).exc # "none"
       THEN AlphaResult(first, "AssertionError", None, <<>>, <<>>,
                        IF cached THEN 0 ELSE 1)
       ELSE AlphaResult([last EXCEPT !.alpha_ = Some(alpha_grid[ArgMin(cv_scores)])],
                        "none", Some(alpha_grid[ArgMin(cv_scores)]),
                        cv_scores, srcs, IF cached THEN 0 ELSE NAlpha)

(* ------------------- SpecA: a stand-alone calculator -------------------- *)
ScoreSet == {1, 2}
\* strengths a parameter matrix can have been fitted with
FitAlphas == {0} \cup {alpha_grid[i] : i \in 1..NAlpha}

NoCallA == [op |-> "none", D |-> None, alpha |-> None, cache |-> FALSE,
            exc |-> "none", ret |-> None, ret_alpha |-> None, refits |-> 0,
            cv_scores |-> <<>>, srcs |-> <<>>]

\* GlmAlooCalculator(estimator, alpha_grid, trim=...) with an estimator of
\* any kind and a trim that is absent, valid or invalid
InitA ==
    /\ kind = "GlmAlooCalculator"
    /\ \E has \in EstParams, trim \in {None, Some(1), Some(60)} :
          calc = GlmAlooCalculator_init(NewEstimator(has), trim)
    /\ ctor = None /\ gmdi = None /\ ens = None /\ mslm = None
    /\ ppm = None /\ script = None /\ inp = None
    /\ call = NoCallA

\* a caller asks for the leave-one-out parameters
GetAlooFittedParameters ==
    /\ kind = "GlmAlooCalculator"
    /\ \E D \in DataArgs, alpha \in AlphaArgs, cache \in BOOLEAN, fit_raises \in BOOLEAN :
          LET r == GlmAlooCalculator_get_aloo_fitted_parameters(calc, D, alpha, cache, fit_raises)
          IN /\ calc' = r.self
             /\ call' = [NoCallA EXCEPT !.op = "get_aloo_fitted_parameters",
                            !.D = D, !.alpha = alpha, !.cache = cache,
                            !.exc = r.exc, !.ret = r.ret,
                            !.refits = IF r.refit THEN 1 ELSE 0]
    /\ UNCHANGED <<kind, ctor, gmdi, ens, mslm, ppm, script, inp>>

\* a caller asks for the strength with the best leave-one-out score
GetAloocvAlpha ==
    /\ kind = "GlmAlooCalculator"
    /\ \E D \in DataSets, fit_raises \in BOOLEAN, score \in [FitAlphas -> ScoreSet] :
          LET r == GlmAlooCalculator_get_aloocv_alpha(calc, D, fit_raises, score)
          IN /\ calc' = r.self
             /\ call' = [NoCallA EXCEPT !.op = "get_aloocv_alpha", !.D = Some(D),
                            !.exc = r.exc, !.ret_alpha = r.ret, !.refits = r.refits,
                            !.cv_scores = r.cv_scores, !.srcs = r.srcs]
    /\ UNCHANGED <<kind, ctor, gmdi, ens, mslm, ppm, script, inp>>

NextA == GetAlooFittedParameters \/ GetAloocvAlpha
SpecA == InitA /\ [][NextA]_vars

(* --------------------- claims about the calculator ---------------------- *)
IsCalc == kind = "GlmAlooCalculator"

\* C16: the cached parameter matrix gets a value only in a completed
\* get_aloo_fitted_parameters call with cache=True, a call with cache=False
\* leaves it as it is, and once it has a value every call leaves it unchanged
\* and every get_aloo_fitted_parameters call returns it without refitting,
\* whatever its arguments.
C16_CacheOnce ==
    [][ IsCalc =>
          /\ (calc.loo_fitted_parameters = None /\ calc'.loo_fitted_parameters # None) =>
                (/\ call'.op = "get_aloo_fitted_parameters"
                 /\ call'.cache /\ call'.exc = "none"
                 /\ call'.ret = calc'.loo_fitted_parameters)
          /\ (call'.op = "get_aloo_fitted_parameters" /\ ~call'.cache) =>
                calc'.loo_fitted_parameters = calc.loo_fitted_parameters
          /\ calc.loo_fitted_parameters # None =>
                /\ calc'.loo_fitted_parameters = calc.loo_fitted_parameters
                /\ call'.op = "get_aloo_fitted_parameters" =>
                      (/\ call'.exc = "none" /\ call'.refits = 0
                       /\ call'.ret = calc.loo_fitted_parameters
                       /\ calc' = calc)
      ]_vars

\* C16 witness: a calculator holding a cached matrix was asked for the
\* parameters of other data and returned the cached matrix
C16_Witness ==
    /\ IsCalc /\ calc.loo_fitted_parameters # None
    /\ call.op = "get_aloo_fitted_parameters" /\ call.D # None
    /\ call.D.v.id # calc.loo_fitted_parameters.v.data
    /\ call.ret = calc.loo_fitted_parameters /\ call.refits = 0

\* C17: when get_aloocv_alpha(X, y) of a calculator whose estimator has a
\* regularisation parameter returns, the score of every candidate i was
\* computed from parameters fitted at alpha_grid[i] on that call's data, and
\* the strength returned is the first candidate with the least score.
C17_ScoresPerCandidate ==
    (/\ IsCalc /\ call.op = "get_aloocv_alpha" /\ call.exc = "none"
     /\ calc.estimator.has # "none") =>
       /\ \A i \in 1..NAlpha :
             call.srcs[i] = Some([data |-> call.D.v.id, shape |-> call.D.v.shape,
                                  alpha |-> alpha_grid[i]])
       /\ call.ret_alpha = Some(alpha_grid[ArgMin(call.cv_scores)])
       /\ calc.alpha_ = call.ret_alpha

(* ===================== partial-prediction models ======================== *)
MaxBlocks == 2

\* block-partitioned data: cols[k] is the number of columns of block k; the
\* train and the test partition of one fit have the same blocks.  Block k has
\* k columns, so that the columns selected for a block are none (all but the
\* only block), one or several.
BlockedData == {[id |-> i, cols |-> [k \in 1..n |-> k]] : i \in {1, 2}, n \in 0..MaxBlocks}

RECURSIVE Width(_, _)
\* the number of columns of get_all_data(), over the first n blocks
Width(cols, n) == IF n = 0 THEN 0 ELSE cols[n] + Width(cols, n - 1)

\* the data as the calculator sees it: arrays of Width columns
AllData(D) == [id |-> D.id, shape |-> Width(D.cols, Len(D.cols))]


\* PartialPredictionModelBase.__init__ with the fields the subclasses add;
\* has tells which regularisation parameter the estimator has
PPM_init(cls, has, trim, fixed_intercept, loo_model_selection) ==
    [cls |-> cls,
     estimator |-> NewEstimator(has),
     n_blocks |-> None,
     _partial_preds |-> <<>>,
     _full_preds |-> None,
     is_fitted |-> FALSE,
     trim |-> trim,
     fixed_intercept |-> fixed_intercept,
     loo_model_selection |-> loo_model_selection,
     alpha_ |-> None,
     aloo_calculator |-> IF cls = "GenericLOOPPM"
                         THEN GlmAlooCalculator_init(NewEstimator(has), trim)
                         ELSE None]

StepResult(self, exc, ret) == [self |-> self, exc |-> exc, ret |-> ret]

\* _fit_model of the three families; o.fit_raises and o.score are the
\* outcomes of estimator.fit and of the hyperparameter scorer
PPM_fit_model(self, D, o) ==
    IF self.cls = "GenericLOOPPM"
    THEN LET r == GlmAlooCalculator_get_aloocv_alpha(self.aloo_calculator, AllData(D),
                                                     o.fit_raises, o.score)
         IN IF r.exc # "none"
            THEN StepResult([self EXCEPT !.aloo_calculator = r.self], r.exc, None)
            ELSE StepResult([self EXCEPT !.aloo_calculator = r.self,
                                         !.alpha_ = r.ret,
                                         !.estimator = SetParams(@, r.ret)],
                            "none", None)
    ELSE IF self.cls = "LogisticPPM" /\ self.loo_model_selection
    THEN LET r == GlmAlooCalculator_get_aloocv_alpha(
                     GlmAlooCalculator_init(self.estimator, self.trim), AllData(D),
                     o.fit_raises, o.score)
         IN IF r.exc # "none"
            THEN StepResult(self, r.exc, None)
            ELSE StepResult([self EXCEPT !.estimator =
                                [SetParams(@, r.ret) EXCEPT !.fitted_on = Some(D.id)]],
                            "none", None)
    ELSE IF o.fit_raises
    THEN StepResult(self, "External", None)
    ELSE StepResult([self EXCEPT !.estimator.fitted_on = Some(D.id)], "none", None)

\* a prediction vector, identified by the rows it was made for and the
\* parameters it was made with; limit is the trim applied to it
Pred(D, by, params, limit) == [data |-> D.id, by |-> by, params |-> params, limit |-> limit]

\* _fit_full_predictions of the three families
PPM_fit_full_predictions(self, D, y_test, o) ==
    IF self.cls = "RidgePPM"
    THEN StepResult(self, "none", Some(Pred(D, "estimator", self.estimator, None)))
    ELSE IF self.cls = "LogisticPPM"
    THEN IF TrimValues(self.trim, <<0>>).exc # "none"
         THEN StepResult(self, "AssertionError", None)
         ELSE StepResult(self, "none", Some(Pred(D, "estimator", self.estimator, self.trim)))
    ELSE IF y_test = None
    THEN StepResult(self, "ValueError:y_test", None)
    ELSE LET r == GlmAlooCalculator_get_aloo_fitted_parameters(
                     self.aloo_calculator, Some(AllData(D)), self.alpha_, TRUE, o.fit_raises)
             s == [self EXCEPT !.aloo_calculator = r.self]
         IN IF r.exc # "none"
            THEN StepResult(s, r.exc, None)
            ELSE IF r.ret.v.shape # AllData(D).shape
            THEN StepResult(s, "ValueError:broadcast", None)
            ELSE IF GlmAlooCalculator_score_to_pred(r.self, <<0>>).exc # "none"
            THEN StepResult(s, "AssertionError", None)
            ELSE StepResult(s, "none", Some(Pred(D, "loo", r.ret.v, self.trim)))


\* the number of entries of col_indices for block k (0-based in the code,
\* 1-based here) before the intercept index is appended
SelectedCols(D, k, mode) ==
    IF mode = "keep_k" THEN D.cols[k] ELSE Width(D.cols, Len(D.cols)) - D.cols[k]

\* variant: the null model is taken when one column is selected
NullModel_one(self, ncols) == self.fixed_intercept /\ ncols = 1
\* line 438: col_indices holds the selected columns and the appended -1
NullModel(self, ncols) == self.fixed_intercept /\ ncols + 1 = 1

\* the pair a partial prediction is stored as
Partial(pred, what, len) == [pred |-> pred, params |-> [what |-> what, len |-> len]]

\* _fit_partial_predictions of the three families, for a valid mode and a
\* model whose full predictions were just made
PPM_fit_partial_predictions(self, k, mode, D) ==
    LET ncols == SelectedCols(D, k, mode)
    IN IF self.cls = "RidgePPM"
       THEN Partial(Pred(D, "estimator", self.estimator, None), "coef_and_intercept",
                    Width(D.cols, Len(D.cols)) + 1)
       ELSE IF self.cls = "LogisticPPM"
       THEN Partial(Pred(D, "estimator", self.estimator, self.trim), "reduced_coef", ncols)
       ELSE IF NullModel(self, ncols)
       THEN Partial(Pred(D, "intercept", self.aloo_calculator.estimator, self.trim),
                    "intercept", 1)
       ELSE Partial(Pred(D, "loo", self.aloo_calculator.loo_fitted_parameters.v, self.trim),
                    "reduced_parameters", ncols + 1)

PPMFitResult(self, exc) == [self |-> self, exc |-> exc]

\* line 240: the dictionary keeps the keys the loop does not assign
Stored(old, n, new) == [k \in 1..(IF Len(old) > n THEN Len(old) ELSE n) |-> IF k <= n THEN new[k] ELSE old[k]]

\* lines 239-240 with 335, 382, 435: the mode is checked by the first turn of the loop
ModeRaises(mode, n) == mode \notin Modes /\ n >= 1

\* PartialPredictionModelBase.fit(train_blocked_data, y_train, test_blocked_data,
\* y_test, mode); D stands for both partitions
PPM_fit(self, D, y_test, mode, o) ==
    LET n == Len(D.cols)
        s0 == [self EXCEPT !.n_blocks = Some(n)]
        m == PPM_fit_model(s0, D, o)
        f == PPM_fit_full_predictions(m.self, D, y_test, o)
        s2 == [f.self EXCEPT !._full_preds = f.ret]
    IN IF m.exc # "none" THEN PPMFitResult(m.self, m.exc)
       ELSE IF f.exc # "none" THEN PPMFitResult(f.self, f.exc)
       ELSE IF ModeRaises(mode, n) THEN PPMFitResult(s2, "ValueError:mode")
       ELSE PPMFitResult([s2 EXCEPT !._partial_preds =
                            Stored(@, n, [k \in 1..n |-> PPM_fit_partial_predictions(s2, k, mode, D)]),
                                 !.is_fitted = TRUE],
                      "none")

(* ---------------- SpecP: one partial-prediction model ------------------- *)
\* trim limits: absent, valid, invalid
Trims == {None, Some(1), Some(60)}

\* the scorer prefers one end of the grid or the other
PScores == {[a \in FitAlphas |-> IF a = b THEN 1 ELSE 2] : b \in {alpha_grid[1], alpha_grid[NAlpha]}}

\* what the external calls of one fit do: the estimator fits, the scorer scores
FitOutcomes == {[fit_raises |-> FALSE, score |-> s] : s \in PScores}

PPMConfigs ==
    {PPM_init("RidgePPM", "none", None, FALSE, FALSE)}
    \cup {PPM_init("LogisticPPM", "C", t, FALSE, l) : t \in Trims, l \in BOOLEAN}
    \cup {PPM_init("GenericLOOPPM", "alpha", t, f, FALSE) : t \in Trims, f \in BOOLEAN}

NoCallP == [op |-> "none", D |-> None, y_test |-> FALSE, mode |-> "none",
            o |-> None, exc |-> "none", ret |-> None]

\* y_test is read by the leave-one-out family only
YTestGiven(self) == IF self.cls = "GenericLOOPPM" THEN BOOLEAN ELSE {TRUE}

InitP ==
    /\ kind = "PPM"
    /\ ppm \in PPMConfigs
    /\ call = NoCallP
    /\ ctor = None /\ gmdi = None /\ ens = None /\ mslm = None
    /\ calc = None /\ script = None /\ inp = None

\* ppm.fit(train_blocked_data, y_train, test_blocked_data, y_test, mode)
FitP ==
    /\ kind = "PPM"
    /\ \E D \in BlockedData, y \in YTestGiven(ppm), mode \in Modes \cup {"other"}, o \in FitOutcomes :
          LET r == PPM_fit(ppm, D, IF y THEN Some(D.id) ELSE None, mode, o)
          IN /\ ppm' = r.self
             /\ call' = [NoCallP EXCEPT !.op = "fit", !.D = Some(D), !.y_test = y,
                                        !.mode = mode, !.o = Some(o), !.exc = r.exc]
    /\ UNCHANGED <<kind, ctor, gmdi, ens, mslm, calc, script, inp>>

NextP == FitP
SpecP == InitP /\ [][NextP]_vars

IsPPM == kind = "PPM"

\* C11: a fit with a mode that is neither keep_k nor keep_rest raises an
\* invalid-configuration error, whatever the blocked data, and leaves an
\* unfitted model unfitted
C11_InvalidModeRaises ==
    [][(IsPPM /\ call'.op = "fit" /\ call'.mode \notin Modes /\ call'.y_test)
         => /\ call'.exc \in {"ValueError:mode", "AssertionError"}
            /\ (~ppm.is_fitted => ~ppm'.is_fitted)]_vars

\* a leave-one-out model with a fixed intercept whose latest fit returned
FixedInterceptFitted ==
    IsPPM /\ ppm.cls = "GenericLOOPPM" /\ ppm.fixed_intercept /\ call.op = "fit" /\ call.exc = "none"

\* the stored pair is the repeated intercept-only prediction with [intercept]
IsNullModel(p) ==
    p.pred.by = "intercept" /\ p.pred.params = ppm.aloo_calculator.estimator /\ p.params = [what |-> "intercept", len |-> 1]

\* the stored pair is made from the per-sample parameters of ncols columns
\* and the intercept
IsLooModel(p, ncols) ==
    p.pred.by = "loo" /\ p.pred.params = ppm.aloo_calculator.loo_fitted_parameters.v /\ p.params = [what |-> "reduced_parameters", len |-> ncols + 1]

\* C15 as stated: with fixed_intercept, the partial prediction of block k is
\* the intercept-only one exactly when one column is selected for the block
C15_NullModelWhenOneColumn ==
    FixedInterceptFitted =>
        \A k \in 1..Len(call.D.v.cols) :
            IF SelectedCols(call.D.v, k, call.mode) = 1
            THEN IsNullModel(ppm._partial_preds[k])
            ELSE IsLooModel(ppm._partial_preds[k], SelectedCols(call.D.v, k, call.mode))

\* C15 amended: with fixed_intercept, the partial prediction of block k is
\* the intercept-only one exactly when no column is selected for the block,
\* and is made from the leave-one-out parameters of the selected columns and
\* the intercept otherwise
C15_NullModelWhenNoColumn ==
    FixedInterceptFitted =>
        \A k \in 1..Len(call.D.v.cols) :
            IF SelectedCols(call.D.v, k, call.mode) = 0
            THEN IsNullModel(ppm._partial_preds[k])
            ELSE IsLooModel(ppm._partial_preds[k], SelectedCols(call.D.v, k, call.mode))

C15_Witness ==
    /\ FixedInterceptFitted
    /\ \E k \in 1..Len(call.D.v.cols) :
          SelectedCols(call.D.v, k, call.mode) = 0 /\ IsNullModel(ppm._partial_preds[k])

\* a new instance with the constructor arguments of self
FreshInstance(self) ==
    PPM_init(self.cls, self.estimator.has, self.trim, self.fixed_intercept, self.loo_model_selection)

\* the leave-one-out parameter matrix a model holds, if it holds one
LooMatrix(self) ==
    IF self.cls = "GenericLOOPPM" THEN self.aloo_calculator.loo_fitted_parameters ELSE None

\* C18: after a fit that returns, the alpha, the full prediction, the
\* leave-one-out parameter matrix and the block indices with a stored partial
\* prediction are those of a new instance fitted on the same data
C18_RefitOverwrites ==
    (IsPPM /\ call.op = "fit" /\ call.exc = "none") =>
        LET f == PPM_fit(FreshInstance(ppm), call.D.v, Some(call.D.v.id), call.mode, call.o.v).self
        IN /\ ppm.alpha_ = f.alpha_
           /\ ppm._full_preds = f._full_preds
           /\ LooMatrix(ppm) = LooMatrix(f)
           /\ DOMAIN ppm._partial_preds = DOMAIN f._partial_preds

(* ------------------ SpecT: requests for predictions --------------------- *)
MaxLen == 2

\* LogisticPPM._trim_values
LogisticPPM_trim_values(self, values) == TrimValues(self.trim, values)

\* trim limits in hundredths: absent, valid, and outside (0, 0.5)
TrimArgs == {None, Some(1), Some(25), Some(0), Some(50), Some(60), Some(0 - 1)}

\* link-function values in hundredths, inside and outside [0, 1]
RawValues == {0 - 10, 0, 1, 30, 99, 100, 150}
RawVectors == UNION {[1..n -> RawValues] : n \in 1..MaxLen}

TrimmingClasses == {"LogisticPPM", "GenericLOOPPM", "GlmAlooCalculator"}

NoCallT == [op |-> "none", values |-> <<>>, exc |-> "none", ret |-> None]

\* an object of one of the classes that trim, built with any trim
InitT ==
    /\ kind = "Trimming"
    /\ \E cls \in TrimmingClasses, t \in TrimArgs :
          /\ ppm = IF cls = "LogisticPPM" THEN PPM_init(cls, "C", t, FALSE, TRUE)
                   ELSE IF cls = "GenericLOOPPM" THEN PPM_init(cls, "alpha", t, TRUE, FALSE)
                   ELSE None
          /\ calc = IF cls = "GlmAlooCalculator"
                    THEN GlmAlooCalculator_init(NewEstimator("alpha"), t) ELSE None
    /\ call = NoCallT
    /\ ctor = None /\ gmdi = None /\ ens = None /\ mslm = None
    /\ script = None /\ inp = None

\* the trim the object was built with
TrimOf == IF calc # None THEN calc.trim ELSE ppm.trim

\* what the object returns for link-function values: LogisticPPM through its
\* own _trim_values (lines 372, 385), GenericLOOPPM through its calculator
\* (lines 423, 440, 444), the calculator through score_to_pred
Predictions(values) ==
    IF calc # None THEN GlmAlooCalculator_score_to_pred(calc, values)
    ELSE IF ppm.cls = "LogisticPPM" THEN LogisticPPM_trim_values(ppm, values)
    ELSE GlmAlooCalculator_score_to_pred(ppm.aloo_calculator, values)

\* one request for predictions
PredictionRequest ==
    /\ kind = "Trimming"
    /\ \E values \in RawVectors :
          call' = [NoCallT EXCEPT !.op = "predict", !.values = values,
                                  !.exc = Predictions(values).exc,
                                  !.ret = Predictions(values).ret]
    /\ UNCHANGED <<kind, ctor, gmdi, ens, mslm, ppm, calc, script, inp>>

NextT == PredictionRequest
SpecT == InitT /\ [][NextT]_vars

\* C12: with a trim outside (0, 0.5) every request for predictions raises;
\* with a valid trim t every returned prediction lies in [t, 1 - t], a raw
\* 0.0 becomes t and a raw 1.0 becomes 1 - t
C12_Trimming ==
    (kind = "Trimming" /\ call.op = "predict" /\ TrimOf # None) =>
        IF TrimOf.v <= 0 \/ 2 * TrimOf.v >= Unit
        THEN call.exc = "AssertionError" /\ call.ret = None
        ELSE /\ call.exc = "none"
             /\ Len(call.ret.v) = Len(call.values)
             /\ \A i \in 1..Len(call.values) :
                   /\ TrimOf.v <= call.ret.v[i] /\ call.ret.v[i] <= Unit - TrimOf.v
                   /\ (call.values[i] = 0 => call.ret.v[i] = TrimOf.v)
                   /\ (call.values[i] = Unit => call.ret.v[i] = Unit - TrimOf.v)

C12_Witness ==
    /\ kind = "Trimming" /\ call.op = "predict" /\ ppm # None /\ ppm.cls = "GenericLOOPPM"
    /\ TrimOf = Some(25) /\ call.values = <<0, Unit>>
    /\ call.ret = Some(<<25, 75>>)

(* ------------- SpecS: scoring the partial predictions ------------------- *)
MaxRows == 2
MaxParams == 2

\* partial parameters: a list or 1-D array of m entries (ndim 1, kept as
\* the only row), or an array of n rows and m columns (ndim 2)
ParamArrays(n) ==
    UNION {{[ndim |-> 1, rows |-> <<v>>] : v \in [1..m -> {0, 1}]}
           \cup {[ndim |-> 2, rows |-> v] : v \in [1..n -> [1..m -> {0, 1}]]} : m \in 1..MaxParams}

\* len(partial_params[k])
ParamLen(params) == IF params.ndim = 1 THEN Len(params.rows[1]) ELSE Len(params.rows)

\* y_test, partial_preds[k] and partial_params[k] for n held-out rows
ScoringInputs ==
    UNION {{[y_test |-> y, preds |-> p, params |-> a] :
               y \in [1..n -> {1, 2}], p \in [1..n -> {0, 1, 2}], a \in ParamArrays(n)} : n \in 1..MaxRows}

ScoreResult(exc, ret) == [exc |-> exc, ret |-> ret]

\* np.dot(y_test, diff) / len(y_test), kept as the quotient's two parts
MeanDot(y_test, diff) == [dot |-> Dot(y_test, diff, Len(y_test)), n |-> Len(y_test)]

\* line 163: len(partial_params[k]) == 1, the number of rows of a 2-D array
OnlyIntercept(params) == ParamLen(params) = 1

\* the "mdi_oob" branch of _score_partial_predictions for one feature
MdiOobScore(y_test, preds, params) ==
    IF OnlyIntercept(params)
    THEN IF params.ndim = 1
         THEN ScoreResult("none", Some(MeanDot(y_test, [i \in 1..Len(preds) |-> preds[i] - params.rows[1][1]])))
         ELSE IF Len(params.rows[1]) = 1
         THEN ScoreResult("none", Some(MeanDot(y_test, [i \in 1..Len(preds) |-> preds[i] - params.rows[1][1]])))
         ELSE ScoreResult("ValueError:sequence", None)
    ELSE IF params.ndim = 1
    THEN ScoreResult("none", Some(MeanDot(y_test, [i \in 1..Len(preds) |-> preds[i] - params.rows[1][Len(params.rows[1])]])))
    ELSE ScoreResult("none", Some(MeanDot(y_test, [i \in 1..Len(preds) |-> preds[i] - params.rows[i][Len(params.rows[i])]])))

NoCallS == [op |-> "none", exc |-> "none", ret |-> None]

InitS ==
    /\ kind = "Scoring"
    /\ inp \in ScoringInputs
    /\ call = NoCallS
    /\ ctor = None /\ gmdi = None /\ ens = None /\ mslm = None
    /\ ppm = None /\ calc = None /\ script = None

\* one turn of the keep_k loop with scoring_fn "mdi_oob"
ScorePartialPredictions ==
    /\ kind = "Scoring"
    /\ call.op = "none"
    /\ call' = [op |-> "score",
                exc |-> MdiOobScore(inp.y_test, inp.preds, inp.params).exc,
                ret |-> MdiOobScore(inp.y_test, inp.preds, inp.params).ret]
    /\ UNCHANGED <<kind, ctor, gmdi, ens, mslm, ppm, calc, script, inp>>

NextS == ScorePartialPredictions
SpecS == InitS /\ [][NextS]_vars

\* C20: in keep_k mode with "mdi_oob" the score of a feature is
\* dot(y_test, partial prediction - baseline) / len(y_test), the baseline
\* being the last entry of 1-D parameters (the sole one when there is one)
\* and the last column of 2-D parameters, for every number of held-out rows
C20_MdiOobBaseline ==
    (kind = "Scoring" /\ call.op = "score") =>
        /\ call.exc = "none"
        /\ call.ret = Some([dot |-> Dot(inp.y_test,
                                        [i \in 1..Len(inp.preds) |->
                                            inp.preds[i] - (IF inp.params.ndim = 1
                                                            THEN inp.params.rows[1][Len(inp.params.rows[1])]
                                                            ELSE inp.params.rows[i][Len(inp.params.rows[i])])],
                                        Len(inp.y_test)),
                            n |-> Len(inp.y_test)])

(* --------------- SpecB: the BART diagnostics script --------------------- *)
NDraws == 8
MaxRules == 5

Stmt(line, step, uses, binds, relative, external) ==
    [line |-> line, step |-> step, uses |-> uses, binds |-> binds,
     relative |-> relative, external |-> external]

\* the statements of the module in the order they run when it is the main
\* module; uses are the names a statement looks up, binds the names it assigns
Program ==
    << Stmt(1, "import", {}, {"np"}, FALSE, FALSE),
       Stmt(2, "import", {}, {"pd"}, FALSE, FALSE),
       Stmt(3, "import", {}, {"FIGSRegressor"}, FALSE, FALSE),
       Stmt(4, "import", {}, {"plt"}, FALSE, FALSE),
       Stmt(5, "import", {}, {"datasets", "model_selection"}, FALSE, FALSE),
       Stmt(6, "import", {}, {"GradientBoostingRegressor"}, FALSE, FALSE),
       Stmt(7, "import", {}, {"mean_squared_error"}, FALSE, FALSE),
       Stmt(9, "import", {}, {"get_interacting_features"}, FALSE, FALSE),
       Stmt(10, "import", {}, {"plot_qq", "plot_homoskedasity_diagnostics"}, TRUE, FALSE),
       Stmt(11, "import", {}, {"plot_tree_mutation_acceptance_rate", "plot_tree_likelihhod", "plot_tree_probs"}, TRUE, FALSE),
       Stmt(12, "import", {}, {"plot_sigma_convergence"}, TRUE, FALSE),
       Stmt(13, "import", {}, {"plot_tree_depth"}, TRUE, FALSE),
       Stmt(14, "import", {}, {"SklearnTreeInitializer"}, TRUE, FALSE),
       Stmt(15, "import", {}, {"SklearnModel", "BART"}, TRUE, FALSE),
       Stmt(19, "def", {}, {"plot_diagnostics"}, FALSE, FALSE),
       Stmt(35, "import", {}, {"DecisionTreeRegressor"}, FALSE, FALSE),
       Stmt(39, "assign", {}, {"n"}, FALSE, FALSE),
       Stmt(40, "data_generation", {"datasets", "n"}, {"X", "y"}, FALSE, TRUE),
       Stmt(72, "split", {"model_selection", "X", "y"}, {"X_train", "X_test", "y_train", "y_test"}, FALSE, TRUE),
       Stmt(74, "figs_fit", {"FIGSRegressor", "X_train", "y_train"}, {"figs"}, FALSE, TRUE),
       Stmt(76, "assign", {"get_interaction_score", "figs", "X_train", "y_train"}, {"interactions"}, FALSE, TRUE),
       Stmt(77, "assign", {"figs"}, {"n_trees"}, FALSE, FALSE),
       Stmt(82, "assign", {"BART", "n_trees"}, {"bart_zero"}, FALSE, TRUE),
       Stmt(85, "bart_zero_fit", {"bart_zero", "X_train", "y_train"}, {}, FALSE, TRUE),
       Stmt(94, "assign", {"BART", "n_trees", "SklearnTreeInitializer", "figs"}, {"bart_figs"}, FALSE, TRUE),
       Stmt(98, "bart_figs_fit", {"bart_figs", "X_train", "y_train"}, {}, FALSE, TRUE),
       Stmt(100, "assign", {"plt"}, {"fig", "ax1", "ax2"}, FALSE, TRUE),
       Stmt(102, "assign", {"bart_zero", "X_test"}, {"bart_preds"}, FALSE, TRUE),
       Stmt(103, "assign", {"bart_figs", "X_test"}, {"bart_figs_preds"}, FALSE, TRUE),
       Stmt(104, "assign", {"figs", "X_test"}, {"figs_preds"}, FALSE, TRUE),
       Stmt(106, "assign", {"bart_figs", "X_test"}, {"bfigs_preds"}, FALSE, TRUE),
       Stmt(110, "plot_tree_depth_zero", {"plot_tree_depth", "bart_zero", "ax1", "np", "mean_squared_error", "bart_preds", "y_test"}, {}, FALSE, TRUE),
       Stmt(111, "plot_tree_depth_figs", {"plot_tree_depth", "bart_figs", "ax2", "np", "mean_squared_error", "bart_figs_preds", "figs_preds", "y_test"}, {}, FALSE, TRUE),
       Stmt(116, "render", {"plt"}, {}, FALSE, TRUE) >>

\* the steps the script is described by, in order
Steps ==
    <<"data_generation", "split", "figs_fit", "bart_zero_fit", "bart_figs_fit",
      "plot_tree_depth_zero", "plot_tree_depth_figs", "render">>

IsStep(label) == \E i \in 1..Len(Steps) : Steps[i] = label

\* how the file is started: python -m package.module, or python file.py
RunModes == {"module", "script"}

NewRun(started) ==
    [started |-> started, pc |-> 1, names |-> {}, done |-> <<>>, exc |-> "none",
     data |-> 0, n_trees |-> 0]

\* one statement: a relative import needs a parent package, a name that is
\* looked up must be bound, an external call returns or raises; draw is what
\* make_friedman1 returns, trees what len(figs.trees_) will be
Exec(run, ok, draw, trees) ==
    LET s == Program[run.pc]
    IN IF s.relative /\ run.started = "script" THEN [run EXCEPT !.exc = "ImportError"]
       ELSE IF ~(s.uses \subseteq run.names) THEN [run EXCEPT !.exc = "NameError"]
       ELSE IF s.external /\ ~ok THEN [run EXCEPT !.exc = "External"]
       ELSE [run EXCEPT !.pc = @ + 1,
                        !.names = @ \cup s.binds,
                        !.done = IF IsStep(s.step) THEN Append(@, s.step) ELSE @,
                        !.data = IF s.step = "data_generation" THEN draw ELSE @,
                        !.n_trees = IF s.step = "figs_fit" THEN trees ELSE @]

Finished(run) == run.exc # "none" \/ run.pc > Len(Program)

InitB ==
    /\ kind = "Script"
    /\ \E started \in RunModes : script = NewRun(started)
    /\ call = None
    /\ ctor = None /\ gmdi = None /\ ens = None /\ mslm = None
    /\ ppm = None /\ calc = None /\ inp = None

\* the interpreter runs the next statement
Step ==
    /\ kind = "Script"
    /\ ~Finished(script)
    /\ \E ok \in BOOLEAN, draw \in 1..NDraws, trees \in 1..MaxRules :
          script' = Exec(script, ok, draw, trees)
    /\ UNCHANGED <<kind, ctor, gmdi, ens, call, mslm, ppm, calc, inp>>

NextB == Step
SpecB == InitB /\ [][NextB]_vars

\* C13: run as the main module, the script does data generation, the split,
\* the ensemble fit, the two sampler fits and the two tree-depth plots in
\* this order and reaches the final render step, unless an external call fails
C13_ReachesRender ==
    (kind = "Script" /\ script.started = "module" /\ Finished(script)) =>
        (script.exc = "External" \/ (script.exc = "none" /\ script.done = Steps))

(* ------------------ SpecH: the data-derived alpha grid ------------------ *)
GridRows == 2
GridFeats == 2
MaxNum == 3

Inf == [k |-> "inf", n |-> 1, d |-> 0]

\* X as its columns, y one-dimensional, and the grid's start, stop and num
GridInputs ==
    UNION {{[X |-> X, y |-> y, start |-> s, stop |-> 5, num |-> m] :
               X \in [1..p -> [1..n -> {0, 1, 2}]], y \in [1..n -> {0, 1}],
               s \in {0 - 5, 0}, m \in 1..MaxNum} : n \in 1..GridRows, p \in 1..GridFeats}

RECURSIVE SumTo(_, _)
SumTo(v, i) == IF i = 0 THEN 0 ELSE v[i] + SumTo(v, i - 1)

\* v - v.mean(axis=0), every entry multiplied by the number of rows
Centered(v) == [i \in 1..Len(v) |-> Len(v) * v[i] - SumTo(v, Len(v))]

\* np.linalg.norm(v) ** 2
SqNorm(v) == Dot(v, v, Len(v))

\* (X_var_[i] / (X.T @ y)[j]) ** 2 * sigma_sq_ in float arithmetic, from the
\* centered column i, the centered column j and the centered y, all scaled by
\* the number of rows n: x / 0 is inf, 0 / 0 and inf * 0 are nan
AlphaOpt(ci, cj, cy) ==
    LET V == SqNorm(ci)
        I == Dot(cj, cy, Len(cy))
        S == SqNorm(cy)
        n == Len(cy)
    IN IF I = 0 THEN (IF V = 0 \/ S = 0 THEN NaN ELSE Inf)
       ELSE Divide(V * V * S, I * I * n * n * n)

\* a < b for two finite values
Less(a, b) == a.n * b.d < b.n * a.d

\* np.max over a set of values: nan if one is nan, else inf if one is inf
MaxOf(vals) ==
    IF NaN \in vals THEN NaN
    ELSE IF Inf \in vals THEN Inf
    ELSE CHOOSE m \in vals : \A v \in vals : ~Less(m, v)

\* line 486: X_var_[:, np.newaxis] has shape (p, 1) and X.T @ y shape (p,),
\* so the quotient has an entry for every pair of features
PairsOf(p) == (1..p) \X (1..p)

\* np.max(alpha_opts_)
Base(X, y) ==
    MaxOf({AlphaOpt(Centered(X[q[1]]), Centered(X[q[2]]), Centered(y)) : q \in PairsOf(Len(X))})

\* entry k of np.logspace(start, stop, num) * base, kept as the exponent of
\* ten and the base it multiplies
GridEntry(start, stop, num, k, base) ==
    [exp |-> IF num = 1 THEN Num(start) ELSE Divide(start * (num - 1) + (k - 1) * (stop - start), num - 1),
     base |-> base]

get_alpha_grid(X, y, start, stop, num) ==
    [k \in 1..num |-> GridEntry(start, stop, num, k, Base(X, y))]

NoCallH == [op |-> "none", ret |-> <<>>]

InitH ==
    /\ kind = "AlphaGrid"
    /\ inp \in GridInputs
    /\ call = NoCallH
    /\ ctor = None /\ gmdi = None /\ ens = None /\ mslm = None
    /\ ppm = None /\ calc = None /\ script = None

\* one call get_alpha_grid(X, y, start, stop, num)
GetAlphaGrid ==
    /\ kind = "AlphaGrid"
    /\ call.op = "none"
    /\ call' = [op |-> "get_alpha_grid",
                ret |-> get_alpha_grid(inp.X, inp.y, inp.start, inp.stop, inp.num)]
    /\ UNCHANGED <<kind, ctor, gmdi, ens, mslm, ppm, calc, script, inp>>

NextH == GetAlphaGrid
SpecH == InitH /\ [][NextH]_vars

\* C21: with a one-dimensional y the anchor is the maximum over features j of
\* (squared norm of centered column j / inner product of centered column j
\* with centered y) squared times the noise variance, each norm paired with
\* its own inner product only, and the grid is num log-spaced multiples of
\* the anchor with increasing exponents
C21_AnchorOwnInnerProduct ==
    (kind = "AlphaGrid" /\ call.op = "get_alpha_grid") =>
        /\ Len(call.ret) = inp.num
        /\ \A k \in 1..inp.num :
              call.ret[k].base =
                 MaxOf({AlphaOpt(Centered(inp.X[j]), Centered(inp.X[j]), Centered(inp.y)) : j \in 1..Len(inp.X)})
        /\ \A k \in 1..(inp.num - 1) : Less(call.ret[k].exp, call.ret[k + 1].exp)

====
